---- MODULE Spec2Model ----
(***************************************************************************)
(* Model of scripts/orchestrate.py: the orchestration loop that selects a  *)
(* task from the Task Store (the `bd` command), claims it, runs the agent  *)
(* on leaf tasks or closes non-leaf tasks, and records the outcome.        *)
(*                                                                         *)
(* The depth of an id and the order of two ids are computed on the         *)
(* characters of the id, the way the code computes them (split on the     *)
(* first "-", count ".", compare by code point).                          *)
(***************************************************************************)
EXTENDS Integers, Sequences, FiniteSets, TLC

VARIABLES
    status,       \* Task Store: status of every task
    cfg,          \* per instance: the arguments orchestrate() was called with
    pc,           \* per instance: position in orchestrate()
    iteration,    \* per instance: the local `iteration`
    cur,          \* per instance: the local `task` (its id), NoTask before any
    is_resumed,   \* per instance: the local `is_resumed`
    agentRes,     \* per instance: what run_agent returned for the current task
    ops,          \* history: commands issued for the task in this iteration
    last,         \* history: how the latest finished iteration ended, named
                  \* after what the agent or the store reported
    nselected,    \* history: number of times the Scheduler returned a task
    retired,      \* history: tasks this run moved to blocked, and why
    qfail,        \* history: failed queries of the latest Scheduler call
    asked,        \* a call of the Dependency Gate or of the Scheduler made on
                  \* its own on the store: its arguments and what it returned
    listing,      \* Task Store: the order in which it lists the tasks
    tgt,          \* init: the .claude directory of the target project
    initcmd       \* init: the flags and the position of `multi-ralph init`

vars == <<status, cfg, pc, iteration, cur, is_resumed, agentRes,
          ops, last, nselected, retired, qfail, asked, listing, tgt, initcmd>>

----------------------------------------------------------------------------
(* Bounds of the model *)

\* largest configured --max-iterations explored
MaxCap == 1
\* with no cap configured, the loop is followed for this many iterations
MaxIter == 2

----------------------------------------------------------------------------
(* Strings *)

\* code point of a character (Python compares str by code point)
Ord(c) ==
    CASE c = "-" -> 45
      [] c = "." -> 46
      [] c = "0" -> 48
      [] c = "1" -> 49
      [] c = "2" -> 50
      [] c = "3" -> 51
      [] c = "4" -> 52
      [] c = "5" -> 53
      [] c = "6" -> 54
      [] c = "7" -> 55
      [] c = "8" -> 56
      [] c = "9" -> 57
      [] c = "b" -> 98
      [] c = "f" -> 102
      [] c = "x" -> 120

MinOf(a, b) == IF a <= b THEN a ELSE b

\* a < b for Python str: first differing character decides, a proper prefix
\* is smaller
StrLess(a, b) ==
    \E k \in 1..(MinOf(Len(a), Len(b)) + 1) :
        /\ \A j \in 1..(k - 1) : a[j] = b[j]
        /\ \/ k > Len(a) /\ k <= Len(b)
           \/ k <= Len(a) /\ k <= Len(b) /\ Ord(a[k]) < Ord(b[k])

\* s.count(c)
CountChar(s, c) == Cardinality({k \in 1..Len(s) : s[k] = c})

\* c in s
HasChar(s, c) == \E k \in 1..Len(s) : s[k] = c

\* s.split(c, 1)[1], for s containing c
SplitAfterFirst(s, c) ==
    LET k == CHOOSE n \in 1..Len(s) : s[n] = c /\ \A j \in 1..(n - 1) : s[j] # c
    IN  SubSeq(s, k + 1, Len(s))

----------------------------------------------------------------------------
(* The tasks of the store: one epic; under it a task with two subtasks and *)
(* a task without subtasks                                                *)

Epic    == "fb-x0"
Parent  == "fb-x0.1"
Leaf1   == "fb-x0.1.1"
Leaf2   == "fb-x0.1.2"
Sibling == "fb-x0.2"

TaskIds == {Epic, Parent, Leaf1, Leaf2, Sibling}

\* None
NoTask == ""

\* the characters of an id
IdChars ==
       "fb-x0"      :> <<"f", "b", "-", "x", "0">>
    @@ "fb-x0.1"    :> <<"f", "b", "-", "x", "0", ".", "1">>
    @@ "fb-x0.1.1"  :> <<"f", "b", "-", "x", "0", ".", "1", ".", "1">>
    @@ "fb-x0.1.2"  :> <<"f", "b", "-", "x", "0", ".", "1", ".", "2">>
    @@ "fb-x0.2"    :> <<"f", "b", "-", "x", "0", ".", "2">>
    @@ ""           :> <<>>
    @@ "fb-x0.3"    :> <<"f", "b", "-", "x", "0", ".", "3">>
    @@ "fb-x0.4"    :> <<"f", "b", "-", "x", "0", ".", "4">>
    @@ "fb-x0.5"    :> <<"f", "b", "-", "x", "0", ".", "5">>
    @@ "fb-x0.6"    :> <<"f", "b", "-", "x", "0", ".", "6">>
    @@ "fb-x0.7"    :> <<"f", "b", "-", "x", "0", ".", "7">>
    @@ "fb-x0.8"    :> <<"f", "b", "-", "x", "0", ".", "8">>
    @@ "fb-x0.9"    :> <<"f", "b", "-", "x", "0", ".", "9">>
    @@ "fb-x0.10"   :> <<"f", "b", "-", "x", "0", ".", "1", "0">>
    @@ "fb-x0.11"   :> <<"f", "b", "-", "x", "0", ".", "1", "1">>
    @@ "fb-x0.12"   :> <<"f", "b", "-", "x", "0", ".", "1", "2">>
    @@ "fb-x0.13"   :> <<"f", "b", "-", "x", "0", ".", "1", "3">>
    @@ "fb-x0.14"   :> <<"f", "b", "-", "x", "0", ".", "1", "4">>
    @@ "fb-x0.15"   :> <<"f", "b", "-", "x", "0", ".", "1", "5">>
    @@ "fb-x0.16"   :> <<"f", "b", "-", "x", "0", ".", "1", "6">>
    @@ "fb-x0.17"   :> <<"f", "b", "-", "x", "0", ".", "1", "7">>
    @@ "fb-x0.18"   :> <<"f", "b", "-", "x", "0", ".", "1", "8">>
    @@ "fb-x0.19"   :> <<"f", "b", "-", "x", "0", ".", "1", "9">>
    @@ "fb-x0.20"   :> <<"f", "b", "-", "x", "0", ".", "2", "0">>
    @@ "fb-x0.21"   :> <<"f", "b", "-", "x", "0", ".", "2", "1">>
    @@ "fb-x0.22"   :> <<"f", "b", "-", "x", "0", ".", "2", "2">>
    @@ "fb-x0.23"   :> <<"f", "b", "-", "x", "0", ".", "2", "3">>
    @@ "fb-x0.24"   :> <<"f", "b", "-", "x", "0", ".", "2", "4">>
    @@ "fb-x0.25"   :> <<"f", "b", "-", "x", "0", ".", "2", "5">>
    @@ "fb-x0.26"   :> <<"f", "b", "-", "x", "0", ".", "2", "6">>
    @@ "fb-x0.27"   :> <<"f", "b", "-", "x", "0", ".", "2", "7">>
    @@ "fb-x0.28"   :> <<"f", "b", "-", "x", "0", ".", "2", "8">>
    @@ "fb-x0.29"   :> <<"f", "b", "-", "x", "0", ".", "2", "9">>
    @@ "fb-x0.30"   :> <<"f", "b", "-", "x", "0", ".", "3", "0">>
    @@ "fb-x0.31"   :> <<"f", "b", "-", "x", "0", ".", "3", "1">>
    @@ "fb-x0.32"   :> <<"f", "b", "-", "x", "0", ".", "3", "2">>
    @@ "fb-x0.33"   :> <<"f", "b", "-", "x", "0", ".", "3", "3">>
    @@ "fb-x0.34"   :> <<"f", "b", "-", "x", "0", ".", "3", "4">>
    @@ "fb-x0.35"   :> <<"f", "b", "-", "x", "0", ".", "3", "5">>
    @@ "fb-x0.36"   :> <<"f", "b", "-", "x", "0", ".", "3", "6">>
    @@ "fb-x0.37"   :> <<"f", "b", "-", "x", "0", ".", "3", "7">>
    @@ "fb-x0.38"   :> <<"f", "b", "-", "x", "0", ".", "3", "8">>
    @@ "fb-x0.39"   :> <<"f", "b", "-", "x", "0", ".", "3", "9">>
    @@ "fb-x0.40"   :> <<"f", "b", "-", "x", "0", ".", "4", "0">>
    @@ "fb-x0.41"   :> <<"f", "b", "-", "x", "0", ".", "4", "1">>
    @@ "fb-x0.42"   :> <<"f", "b", "-", "x", "0", ".", "4", "2">>
    @@ "fb-x0.43"   :> <<"f", "b", "-", "x", "0", ".", "4", "3">>
    @@ "fb-x0.44"   :> <<"f", "b", "-", "x", "0", ".", "4", "4">>
    @@ "fb-x0.45"   :> <<"f", "b", "-", "x", "0", ".", "4", "5">>
    @@ "fb-x0.46"   :> <<"f", "b", "-", "x", "0", ".", "4", "6">>
    @@ "fb-x0.47"   :> <<"f", "b", "-", "x", "0", ".", "4", "7">>
    @@ "fb-x0.48"   :> <<"f", "b", "-", "x", "0", ".", "4", "8">>
    @@ "fb-x0.49"   :> <<"f", "b", "-", "x", "0", ".", "4", "9">>
    @@ "fb-x0.50"   :> <<"f", "b", "-", "x", "0", ".", "5", "0">>
    @@ "x0"         :> <<"x", "0">>
    @@ "x0.1.1"     :> <<"x", "0", ".", "1", ".", "1">>
    @@ "f.b-x0.1"   :> <<"f", ".", "b", "-", "x", "0", ".", "1">>
    @@ "fb-x0-1.1"  :> <<"f", "b", "-", "x", "0", "-", "1", ".", "1">>
    @@ "fb-x0.1.1.1" :> <<"f", "b", "-", "x", "0", ".", "1", ".", "1", ".", "1">>

Chars(id) == IdChars[id]

Status == {"ready", "in_progress", "blocked", "done", "closed"}

\* issue_type of a task as the store reports it
TypeOf(id) == IF id = Epic THEN "epic" ELSE "task"

\* an order in which the store lists tasks (not the order of the sort key)
StoreOrder == <<Epic, Sibling, Leaf2, Parent, Leaf1>>

\* BeadTask built from one item of a store response
BeadTask(id, st) == [id |-> id, task_type |-> TypeOf(id), status |-> st[id]]

\* the store's parent of a task: the id without its last dotted segment
ParentOf(id) ==
    LET s == Chars(id)
    IN  IF HasChar(s, ".")
        THEN LET k == CHOOSE n \in 1..Len(s) :
                         s[n] = "." /\ \A j \in (n + 1)..Len(s) : s[j] # "."
             IN  CHOOSE p \in TaskIds : Chars(p) = SubSeq(s, 1, k - 1)
        ELSE NoTask

\* the store's answer to a list query: the tasks of the set keep, in the
\* order of the store's listing
StoreList(st, keep) ==
    LET Pick(id) == id \in keep
        ids == SelectSeq(listing, Pick)
    IN  [k \in 1..Len(ids) |-> BeadTask(ids[k], st)]

----------------------------------------------------------------------------
(* Outcomes of the external commands *)

\* a `bd` query: answered; failed (exit code # 0, or output that is blank or
\* not JSON: the three give the same return value); the command could not be
\* started (subprocess.run raises)
ReadOutcome == {"ok", "failed", "nolaunch"}

\* `bd show`: as a query, or a valid but empty JSON array
ShowOutcome == ReadOutcome \cup {"emptylist"}

\* a `bd update`: done; exit code # 0; could not be started
WriteOutcome == {"ok", "nonzero", "nolaunch"}

\* run_agent's return value: (True, _, False), (False, None, False),
\* (False, None, True)
AgentOutcome == {"success", "error", "timeout"}

\* run_command: the exception of subprocess.run is printed and raised again
run_command(out) == [raised |-> out = "nolaunch", out |-> out]

----------------------------------------------------------------------------
(* Hierarchy Analyzer *)

\* the depth as the number of dots of the whole id
get_hierarchy_depth_all_dots(task) == CountChar(Chars(task.id), ".")

get_hierarchy_depth(task) ==
    LET task_id == Chars(task.id)
    IN  IF HasChar(task_id, "-")
        THEN CountChar(SplitAfterFirst(task_id, "-"), ".")
        ELSE 0

\* the leaf test without the type: every task of depth 2 or more
is_leaf_task_by_depth(task) == get_hierarchy_depth(task) >= 2

\* the leaf test without the depth: every task that is not an epic
is_leaf_task_non_epic(task) == task.task_type # "epic"

is_leaf_task(task) ==
    IF task.task_type = "epic"
    THEN FALSE
    ELSE get_hierarchy_depth(task) >= 2

----------------------------------------------------------------------------
(* Store queries *)

ReadyLimit == 50
InProgressLimit == 50
ChildLimit == 100

Take(list, limit) == SubSeq(list, 1, MinOf(limit, Len(list)))

\* what a list query hands back: the parsed items, [] for a failed query; the
\* exception of run_command passes through
ParseList(out, items) ==
    IF run_command(out).raised THEN [raised |-> TRUE, tasks |-> <<>>]
    ELSE IF out = "ok" THEN [raised |-> FALSE, tasks |-> items]
    ELSE [raised |-> FALSE, tasks |-> <<>>]

\* the ready query that lists the in-progress tasks too
get_ready_tasks_and_in_progress(st, limit, out) ==
    LET open == {id \in DOMAIN st : st[id] \in {"ready", "in_progress"}}
    IN  ParseList(out, Take(StoreList(st, open), limit))

get_ready_tasks(st, limit, out) ==
    LET ready == {id \in DOMAIN st : st[id] = "ready"}
    IN  ParseList(out, Take(StoreList(st, ready), limit))

\* the in-progress query that leaves out the leaf tasks
get_in_progress_tasks_parents(st, limit, out) ==
    LET parents == {id \in DOMAIN st : /\ st[id] = "in_progress"
                                      /\ ~is_leaf_task(BeadTask(id, st))}
    IN  ParseList(out, Take(StoreList(st, parents), limit))

get_in_progress_tasks(st, limit, out) ==
    LET in_progress == {id \in DOMAIN st : st[id] = "in_progress"}
    IN  ParseList(out, Take(StoreList(st, in_progress), limit))

\* the list-children query that hands back the children whatever the exit
\* code and the output were
get_child_tasks_despite_failure(parent_id, st, out) ==
    LET children == {id \in DOMAIN st : ParentOf(id) = parent_id}
        tasks == Take(StoreList(st, children), ChildLimit)
    IN  [raised |-> run_command(out).raised,
         tasks  |-> IF run_command(out).raised THEN <<>> ELSE tasks]

get_child_tasks(parent_id, st, out) ==
    LET children == {id \in DOMAIN st : ParentOf(id) = parent_id}
    IN  ParseList(out, Take(StoreList(st, children), ChildLimit))

\* bd show: None for a failed query; data[0] of an empty array raises
\* IndexError
get_task_details(task_id, st, out) ==
    IF run_command(out).raised \/ out = "emptylist"
    THEN [raised |-> TRUE, found |-> FALSE, task |-> BeadTask(task_id, st)]
    ELSE [raised |-> FALSE, found |-> out = "ok", task |-> BeadTask(task_id, st)]

----------------------------------------------------------------------------
(* Dependency Gate *)

\* the gate taking blocked for a complete child
all_children_complete_or_blocked(parent_id, st, out) ==
    LET children == get_child_tasks(parent_id, st, out)
    IN  IF children.raised THEN [raised |-> TRUE, val |-> FALSE]
        ELSE [raised |-> FALSE,
              val |-> \A k \in 1..Len(children.tasks) :
                          children.tasks[k].status
                              \in {"done", "closed", "blocked"}]

\* the gate that wants at least one child
all_children_complete_nonempty(parent_id, st, out) ==
    LET children == get_child_tasks(parent_id, st, out)
    IN  IF children.raised THEN [raised |-> TRUE, val |-> FALSE]
        ELSE [raised |-> FALSE,
              val |-> /\ children.tasks # <<>>
                      /\ \A k \in 1..Len(children.tasks) :
                             children.tasks[k].status \in {"done", "closed"}]

all_children_complete(parent_id, st, out) ==
    LET children == get_child_tasks(parent_id, st, out)
    IN  IF children.raised THEN [raised |-> TRUE, val |-> FALSE]
        ELSE IF children.tasks = <<>> THEN [raised |-> FALSE, val |-> TRUE]
        ELSE [raised |-> FALSE,
              val |-> \A k \in 1..Len(children.tasks) :
                          children.tasks[k].status \in {"done", "closed"}]

----------------------------------------------------------------------------
(* Scheduler *)

\* the key without the id: tasks of one depth stay in store order
KeyLessDepthOnly(a, b) == get_hierarchy_depth(a) > get_hierarchy_depth(b)

\* the key with the depth ascending: ancestors first
KeyLessShallowFirst(a, b) ==
    \/ get_hierarchy_depth(a) < get_hierarchy_depth(b)
    \/ /\ get_hierarchy_depth(a) = get_hierarchy_depth(b)
       /\ StrLess(Chars(a.id), Chars(b.id))

\* key=lambda t: (-get_hierarchy_depth(t), t.id), a before b
KeyLess(a, b) ==
    \/ get_hierarchy_depth(a) > get_hierarchy_depth(b)
    \/ /\ get_hierarchy_depth(a) = get_hierarchy_depth(b)
       /\ StrLess(Chars(a.id), Chars(b.id))

\* list.sort is a stable merge sort: of two elements with equal keys the one
\* of the left run goes first
RECURSIVE MergeRuns(_, _)
MergeRuns(left, right) ==
    IF left = <<>> THEN right
    ELSE IF right = <<>> THEN left
    ELSE IF KeyLess(Head(right), Head(left))
    THEN <<Head(right)>> \o MergeRuns(left, Tail(right))
    ELSE <<Head(left)>> \o MergeRuns(Tail(left), right)

RECURSIVE SortTasks(_)
SortTasks(list) ==
    IF Len(list) <= 1 THEN list
    ELSE LET half == Len(list) \div 2
         IN  MergeRuns(SortTasks(SubSeq(list, 1, half)),
                       SortTasks(SubSeq(list, half + 1, Len(list))))

\* the walk that resumes leaf tasks only: a non-leaf task is passed over
\* whatever its gate says
RECURSIVE ResumeWalkLeavesOnly(_, _, _)
ResumeWalkLeavesOnly(list, st, gateOut) ==
    IF list = <<>> THEN [kind |-> "none", task |-> NoTask]
    ELSE IF is_leaf_task(Head(list))
    THEN [kind |-> "found", task |-> Head(list).id]
    ELSE ResumeWalkLeavesOnly(Tail(list), st, gateOut)

\* the loop over the sorted in-progress tasks: the first leaf, or the first
\* non-leaf whose children are complete; gateOut[id] is the outcome of the
\* list-children command issued for id
RECURSIVE ResumeWalk(_, _, _)
ResumeWalk(list, st, gateOut) ==
    IF list = <<>> THEN [kind |-> "none", task |-> NoTask]
    ELSE LET task == Head(list)
         IN  IF is_leaf_task(task)
             THEN [kind |-> "found", task |-> task.id]
             ELSE LET g == all_children_complete(task.id, st, gateOut[task.id])
                  IN  IF g.raised THEN [kind |-> "raised", task |-> NoTask]
                      ELSE IF g.val THEN [kind |-> "found", task |-> task.id]
                      ELSE ResumeWalk(Tail(list), st, gateOut)

\* the ready fallback: the first ready task in key order, None for none
ReadyFallback(st, rdOut) ==
    LET r == get_ready_tasks(st, ReadyLimit, rdOut)
    IN  IF r.raised THEN [raised |-> TRUE, task |-> NoTask, resumed |-> FALSE]
        ELSE IF r.tasks = <<>>
        THEN [raised |-> FALSE, task |-> NoTask, resumed |-> FALSE]
        ELSE [raised |-> FALSE, task |-> SortTasks(r.tasks)[1].id,
              resumed |-> FALSE]

get_next_prioritized_task(resume, st, ipOut, gateOut, rdOut) ==
    IF resume
    THEN LET ip == get_in_progress_tasks(st, InProgressLimit, ipOut)
         IN  IF ip.raised
             THEN [raised |-> TRUE, task |-> NoTask, resumed |-> FALSE]
             ELSE LET w == ResumeWalk(SortTasks(ip.tasks), st, gateOut)
                  IN  IF w.kind = "raised"
                      THEN [raised |-> TRUE, task |-> NoTask, resumed |-> FALSE]
                      ELSE IF w.kind = "found"
                      THEN [raised |-> FALSE, task |-> w.task, resumed |-> TRUE]
                      ELSE ReadyFallback(st, rdOut)
    ELSE ReadyFallback(st, rdOut)

----------------------------------------------------------------------------
(* Store mutations *)

\* bd update --claim: the store moves a ready task to in_progress and refuses
\* (exit code # 0) a task that is not ready
claim_task(task_id, st, out) ==
    LET eff == IF out = "ok" /\ st[task_id] # "ready" THEN "nonzero" ELSE out
    IN  [raised |-> run_command(eff).raised,
         ok     |-> eff = "ok",
         out    |-> eff,
         st     |-> IF eff = "ok" THEN [st EXCEPT ![task_id] = "in_progress"]
                    ELSE st]

\* the close that reports success and leaves the status as it was
complete_task_unrecorded(task_id, st, out) ==
    [raised |-> run_command(out).raised,
     ok     |-> out = "ok",
     out    |-> out,
     st     |-> st]

\* bd update --status closed
complete_task(task_id, st, out) ==
    [raised |-> run_command(out).raised,
     ok     |-> out = "ok",
     out    |-> out,
     st     |-> IF out = "ok" THEN [st EXCEPT ![task_id] = "closed"] ELSE st]

\* the update that puts the task back to ready
fail_task_reopens(task_id, st, out) ==
    [raised |-> run_command(out).raised,
     ok     |-> out = "ok",
     out    |-> out,
     st     |-> IF out = "ok" THEN [st EXCEPT ![task_id] = "ready"] ELSE st]

\* the update without --status blocked: only the note is recorded
fail_task_note_only(task_id, st, out) ==
    [raised |-> run_command(out).raised,
     ok     |-> out = "ok",
     out    |-> out,
     st     |-> st]

\* bd update --status blocked --notes ...
fail_task(task_id, st, out) ==
    [raised |-> run_command(out).raised,
     ok     |-> out = "ok",
     out    |-> out,
     st     |-> IF out = "ok" THEN [st EXCEPT ![task_id] = "blocked"] ELSE st]

\* complete_task whose failure is left for a later iteration
CompleteOrRetry(task_id, st, closeOut, blockOut) ==
    LET c == complete_task(task_id, st, closeOut)
    IN  [raised |-> c.raised, st |-> c.st, cmds |-> {<<"close", c.out>>},
         closed |-> c.ok, blocked |-> FALSE]

\* complete_task and, when it returns False, fail_task: the two calls of
\* `if not complete_task(...): fail_task(...)`.  cmds are the commands issued.
CompleteOrBlock(task_id, st, closeOut, blockOut) ==
    LET c == complete_task(task_id, st, closeOut)
    IN  IF c.raised
        THEN [raised |-> TRUE, st |-> st, cmds |-> {<<"close", c.out>>},
              closed |-> FALSE, blocked |-> FALSE]
        ELSE IF c.ok
        THEN [raised |-> FALSE, st |-> c.st, cmds |-> {<<"close", c.out>>},
              closed |-> TRUE, blocked |-> FALSE]
        ELSE LET f == fail_task(task_id, c.st, blockOut)
             IN  [raised |-> f.raised, st |-> f.st,
                  cmds |-> {<<"close", c.out>>, <<"block", f.out>>},
                  closed |-> FALSE, blocked |-> f.ok]

----------------------------------------------------------------------------
(* The orchestration loop *)

Insts == {1, 2}

\* max_iterations: None, or a number
NoCapValue == [some |-> FALSE, n |-> 0]
CapValues == {NoCapValue} \cup {[some |-> TRUE, n |-> k] : k \in 0..MaxCap}

\* the arguments of orchestrate() that the loop reads
Configs ==
    [resume : BOOLEAN, auto_complete : BOOLEAN, dry_run : {FALSE},
     max_iterations : CapValues]

IdleConfig ==
    [resume |-> FALSE, auto_complete |-> TRUE, dry_run |-> FALSE,
     max_iterations |-> NoCapValue]

\* paths below .claude: a file and a directory with a file that the package
\* ships, and a file that only the project has
InitPaths == {"a", "d", "d/b", "u"}

\* no .claude directory
NoTarget == [root |-> FALSE, ent |-> [p \in InitPaths |-> "absent"]]

\* `multi-ralph init` not run
NoInit ==
    [pc |-> "off", force |-> FALSE, merge |-> FALSE, todo |-> {},
     before |-> NoTarget]

InitIdle == tgt = NoTarget /\ initcmd = NoInit

\* no call made yet
NoCall ==
    [fn |-> "none", n |-> 0, parent |-> NoTask, resume |-> FALSE,
     ipOut |-> "ok", out |-> "ok", rdOut |-> "ok",
     raised |-> FALSE, val |-> FALSE, task |-> NoTask, resumed |-> FALSE,
     change |-> "none", task1 |-> NoTask, resumed1 |-> FALSE,
     raised1 |-> FALSE, task_type |-> "task", depth |-> 0]

InitLocals ==
    /\ iteration = [i \in Insts |-> 0]
    /\ cur = [i \in Insts |-> NoTask]
    /\ is_resumed = [i \in Insts |-> FALSE]
    /\ agentRes = [i \in Insts |-> "none"]
    /\ ops = [i \in Insts |-> {}]
    /\ last = [i \in Insts |-> "none"]
    /\ nselected = [i \in Insts |-> 0]
    /\ retired = [t \in TaskIds |-> "no"]
    /\ qfail = [i \in Insts |-> {}]
    /\ asked = NoCall

\* The store contents a run starts from.  The code reads a status only to
\* list the task (ready, in_progress) and, for a child, to tell done/closed
\* from the rest: done is given to the subtasks only, and the epic, which is
\* no task's child, is ready, in_progress or closed.
InitialStores ==
    {st \in [TaskIds -> Status] :
        /\ st[Epic] \in {"ready", "in_progress", "closed"}
        /\ st[Parent] # "done"
        /\ st[Sibling] # "done"}

\* one orchestrator that updates the store (no dry run), any store content,
\* resume and auto-complete on or off, any iteration limit
Init ==
    /\ status \in InitialStores
    /\ listing = StoreOrder
    /\ InitIdle
    /\ \E c \in Configs : cfg = [i \in Insts |-> IF i = 1 THEN c ELSE IdleConfig]
    /\ pc = [i \in Insts |-> IF i = 1 THEN "top" ELSE "off"]
    /\ InitLocals

\* the loop stops: pc, last; nothing else changes
Stop(i, where, why) ==
    /\ pc' = [pc EXCEPT ![i] = where]
    /\ last' = [last EXCEPT ![i] = why]
    /\ UNCHANGED <<status, cfg, iteration, cur, is_resumed, agentRes, ops,
                   nselected, retired, asked, listing, tgt, initcmd>>

\* the list-children commands the Scheduler can issue: one per in-progress
\* non-leaf task, in resume mode
GateAsked(i) ==
    IF cfg[i].resume
    THEN {t \in TaskIds : status[t] = "in_progress"
                          /\ ~is_leaf_task(BeadTask(t, status))}
    ELSE {}

\* One call of the Scheduler, for given outcomes of its commands: what it
\* returned, and which queries were answered with a failure that was absorbed
\* as an empty list ("ip", "ready", or "gate": the list-children query of the
\* task returned)
SchedulerStep(i, ipOut, rdOut, gateOut) ==
    LET sel == get_next_prioritized_task(cfg[i].resume, status,
                                         ipOut, gateOut, rdOut)
        found == ~sel.raised /\ sel.task # NoTask
    IN  [task    |-> sel.task,
         resumed |-> sel.resumed,
         raised  |-> sel.raised,
         qfail   |-> {q \in {"ip"} : cfg[i].resume /\ ipOut # "ok"}
                     \cup {q \in {"ready"} :
                             ~sel.raised /\ ~sel.resumed /\ rdOut # "ok"}
                     \cup {q \in {"gate"} :
                             /\ found /\ sel.resumed
                             /\ sel.task \in DOMAIN gateOut
                             /\ gateOut[sel.task] # "ok"}]

SchedulerResults(i) ==
    {SchedulerStep(i, o[1], o[2], o[3]) :
        o \in (IF cfg[i].resume THEN ReadOutcome ELSE {"ok"})
              \X ReadOutcome \X [GateAsked(i) -> ReadOutcome]}

\* whether bd show on the selected task can raise, can return
ShowResults(task_id) ==
    {get_task_details(task_id, status, shOut).raised : shOut \in ShowOutcome}

\* Top of the loop: the iteration limit, the Scheduler, bd show
Select(i) ==
    /\ pc[i] = "top"
    /\ IF cfg[i].max_iterations.some /\ iteration[i] >= cfg[i].max_iterations.n
       THEN /\ Stop(i, "done", "cap")
            /\ UNCHANGED qfail
       ELSE \E r \in SchedulerResults(i) :
            /\ qfail' = [qfail EXCEPT ![i] = r.qfail]
            /\ IF r.task = NoTask
               THEN IF r.raised THEN Stop(i, "crashed", "raised")
                    ELSE Stop(i, "done", "exhausted")
               ELSE \E showRaised \in ShowResults(r.task) :
                    /\ cur' = [cur EXCEPT ![i] = r.task]
                    /\ is_resumed' = [is_resumed EXCEPT ![i] = r.resumed]
                    /\ nselected' = [nselected EXCEPT ![i] = @ + 1]
                    /\ ops' = [ops EXCEPT ![i] = {}]
                    /\ agentRes' = [agentRes EXCEPT ![i] = "none"]
                    /\ pc' = [pc EXCEPT ![i] =
                                 IF showRaised THEN "crashed" ELSE "claim"]
                    /\ last' = [last EXCEPT ![i] =
                                 IF showRaised THEN "raised" ELSE @]
                    /\ UNCHANGED <<status, cfg, iteration, retired, asked, listing, tgt, initcmd>>

\* `continue` after a failed claim without counting the iteration
EndIterationUncounted(i, how) ==
    /\ iteration' = [iteration EXCEPT ![i] =
                        IF how = "claim_failed" THEN @ ELSE @ + 1]
    /\ pc' = [pc EXCEPT ![i] = "top"]
    /\ last' = [last EXCEPT ![i] = how]

\* the end of an iteration: iteration += 1, back to the top
EndIteration(i, how) ==
    /\ iteration' = [iteration EXCEPT ![i] = @ + 1]
    /\ pc' = [pc EXCEPT ![i] = "top"]
    /\ last' = [last EXCEPT ![i] = how]

\* an exception leaves the loop
Raise(i) ==
    /\ pc' = [pc EXCEPT ![i] = "crashed"]
    /\ last' = [last EXCEPT ![i] = "raised"]
    /\ UNCHANGED iteration

\* the claim whose failure is recorded on the task as a failure
ClaimOrBlock(i) ==
    /\ pc[i] = "claim"
    /\ LET leaf == is_leaf_task(BeadTask(cur[i], status))
           next == IF leaf THEN "agent" ELSE "close"
       IN  IF cfg[i].dry_run \/ is_resumed[i]
           THEN /\ pc' = [pc EXCEPT ![i] = next]
                /\ UNCHANGED <<status, iteration, last, ops>>
           ELSE \E out \in WriteOutcome :
                LET c == claim_task(cur[i], status, out)
                    f == fail_task(cur[i], c.st, "ok")
                IN  /\ status' = IF c.raised \/ c.ok THEN c.st ELSE f.st
                    /\ ops' = [ops EXCEPT ![i] =
                                  IF c.raised \/ c.ok
                                  THEN @ \cup {<<"claim", c.out>>}
                                  ELSE @ \cup {<<"claim", c.out>>,
                                               <<"block", f.out>>}]
                    /\ IF c.raised THEN Raise(i)
                       ELSE IF ~c.ok THEN EndIteration(i, "claim_failed")
                       ELSE /\ pc' = [pc EXCEPT ![i] = next]
                            /\ UNCHANGED <<iteration, last>>
    /\ UNCHANGED <<cfg, cur, is_resumed, agentRes, nselected, retired, qfail, asked, listing, tgt, initcmd>>

\* the claim issued for a resumed task too
ClaimResumedToo(i) ==
    /\ pc[i] = "claim"
    /\ LET leaf == is_leaf_task(BeadTask(cur[i], status))
           next == IF leaf THEN "agent" ELSE "close"
       IN  \E out \in WriteOutcome :
               LET c == claim_task(cur[i], status, out)
               IN  /\ status' = c.st
                   /\ ops' = [ops EXCEPT ![i] = @ \cup {<<"claim", c.out>>}]
                   /\ IF c.raised THEN Raise(i)
                      ELSE IF ~c.ok THEN EndIteration(i, "claim_failed")
                      ELSE /\ pc' = [pc EXCEPT ![i] = next]
                           /\ UNCHANGED <<iteration, last>>
    /\ UNCHANGED <<cfg, cur, is_resumed, agentRes, nselected, retired, qfail, asked, listing, tgt, initcmd>>

\* The claim, for a non-leaf and for a leaf task: skipped in a dry run and for
\* a resumed task
Claim(i) ==
    /\ pc[i] = "claim"
    /\ LET leaf == is_leaf_task(BeadTask(cur[i], status))
           next == IF leaf THEN "agent" ELSE "close"
       IN  IF cfg[i].dry_run \/ is_resumed[i]
           THEN /\ pc' = [pc EXCEPT ![i] = next]
                /\ UNCHANGED <<status, iteration, last, ops>>
           ELSE \E out \in WriteOutcome :
                LET c == claim_task(cur[i], status, out)
                IN  /\ status' = c.st
                    /\ ops' = [ops EXCEPT ![i] = @ \cup {<<"claim", c.out>>}]
                    /\ IF c.raised THEN Raise(i)
                       ELSE IF ~c.ok THEN EndIteration(i, "claim_failed")
                       ELSE /\ pc' = [pc EXCEPT ![i] = next]
                            /\ UNCHANGED <<iteration, last>>
    /\ UNCHANGED <<cfg, cur, is_resumed, agentRes, nselected, retired, qfail, asked, listing, tgt, initcmd>>

\* A non-leaf task: closed without running the agent
CloseParent(i) ==
    /\ pc[i] = "close"
    /\ IF cfg[i].dry_run
       THEN /\ EndIteration(i, "dry_run")
            /\ UNCHANGED <<status, ops, retired>>
       ELSE IF ~cfg[i].auto_complete
       THEN /\ EndIteration(i, "parent_left")
            /\ UNCHANGED <<status, ops, retired>>
       ELSE \E closeOut \in WriteOutcome, blockOut \in WriteOutcome :
            LET r == CompleteOrBlock(cur[i], status, closeOut, blockOut)
            IN  /\ status' = r.st
                /\ ops' = [ops EXCEPT ![i] = @ \cup r.cmds]
                /\ retired' = IF r.blocked
                              THEN [retired EXCEPT ![cur[i]] = "close_failed"]
                              ELSE retired
                /\ IF r.raised THEN Raise(i)
                   ELSE EndIteration(i, IF r.closed THEN "parent_closed"
                                        ELSE "close_failed")
    /\ UNCHANGED <<cfg, cur, is_resumed, agentRes, nselected, qfail, asked, listing, tgt, initcmd>>

\* run_agent that starts the agent in a dry run too
AgentReturnInDryRun(i) ==
    /\ pc[i] = "agent"
    /\ \E r \in AgentOutcome : agentRes' = [agentRes EXCEPT ![i] = r]
    /\ ops' = [ops EXCEPT ![i] = @ \cup {<<"agent", "ok">>}]
    /\ pc' = [pc EXCEPT ![i] = "update"]
    /\ UNCHANGED <<status, cfg, iteration, cur, is_resumed, last, nselected,
                   retired, qfail, asked, listing, tgt, initcmd>>

\* run_agent returns: in a dry run (True, None, False) without starting the
\* agent; otherwise success, an error (exit code # 0, or an exception other
\* than the timeout), or the timeout
AgentReturn(i) ==
    /\ pc[i] = "agent"
    /\ \E r \in (IF cfg[i].dry_run THEN {"success"} ELSE AgentOutcome) :
           agentRes' = [agentRes EXCEPT ![i] = r]
    /\ ops' = [ops EXCEPT ![i] =
                  IF cfg[i].dry_run THEN @ ELSE @ \cup {<<"agent", "ok">>}]
    /\ pc' = [pc EXCEPT ![i] = "update"]
    /\ UNCHANGED <<status, cfg, iteration, cur, is_resumed, last, nselected,
                   retired, qfail, asked, listing, tgt, initcmd>>

\* the branch taken with the failure branch ahead of the timeout branch
LeafOutcomeActionFailFirst(success, timed_out, auto_complete) ==
    IF success /\ auto_complete THEN "complete"
    ELSE IF ~success THEN "fail"
    ELSE IF timed_out THEN "note"
    ELSE "none"

\* the branch taken when a success is completed whatever auto_complete is
LeafOutcomeActionAlwaysComplete(success, timed_out, auto_complete) ==
    IF success THEN "complete"
    ELSE IF timed_out THEN "note"
    ELSE "fail"

\* the branch of `if success and auto_complete: ... elif timed_out: ...
\* elif not success: ...`
LeafOutcomeAction(success, timed_out, auto_complete) ==
    IF success /\ auto_complete THEN "complete"
    ELSE IF timed_out THEN "note"
    ELSE IF ~success THEN "fail"
    ELSE "none"

\* A leaf task after the agent: close, note or block
UpdateStatus(i) ==
    /\ pc[i] = "update"
    /\ LET success == agentRes[i] = "success"
           timed_out == agentRes[i] = "timeout"
           act == LeafOutcomeAction(success, timed_out, cfg[i].auto_complete)
       IN  IF cfg[i].dry_run
           THEN /\ EndIteration(i, "dry_run")
                /\ UNCHANGED <<status, ops, retired>>
           ELSE IF act = "complete"
           THEN \E closeOut \in WriteOutcome, blockOut \in WriteOutcome :
                LET r == CompleteOrBlock(cur[i], status, closeOut, blockOut)
                IN  /\ status' = r.st
                    /\ ops' = [ops EXCEPT ![i] = @ \cup r.cmds]
                    /\ retired' = IF r.blocked
                                  THEN [retired EXCEPT ![cur[i]] = "close_failed"]
                                  ELSE retired
                    /\ IF r.raised THEN Raise(i)
                       ELSE EndIteration(i, IF r.closed THEN "completed"
                                            ELSE "close_failed")
           ELSE IF act = "note"
           THEN \E noteOut \in WriteOutcome :
                /\ ops' = [ops EXCEPT ![i] = @ \cup {<<"note", noteOut>>}]
                /\ IF run_command(noteOut).raised THEN Raise(i)
                   ELSE EndIteration(i, IF timed_out THEN "timeout"
                                        ELSE "failed")
                /\ UNCHANGED <<status, retired>>
           ELSE IF act = "fail"
           THEN \E blockOut \in WriteOutcome :
                LET f == fail_task(cur[i], status, blockOut)
                IN  /\ status' = f.st
                    /\ ops' = [ops EXCEPT ![i] = @ \cup {<<"block", f.out>>}]
                    /\ retired' = IF f.ok /\ ~timed_out
                                  THEN [retired EXCEPT ![cur[i]] = "agent_failed"]
                                  ELSE retired
                    /\ IF f.raised THEN Raise(i)
                       ELSE EndIteration(i, IF timed_out THEN "timeout"
                                            ELSE "failed")
           ELSE /\ EndIteration(i, "success_left")
                /\ UNCHANGED <<status, ops, retired>>
    /\ UNCHANGED <<cfg, cur, is_resumed, agentRes, nselected, qfail, asked, listing, tgt, initcmd>>

\* the loop is followed for MaxIter iterations
SelectBounded(i) == iteration[i] < MaxIter /\ Select(i)

Next ==
    \E i \in Insts :
        \/ SelectBounded(i)
        \/ Claim(i)
        \/ CloseParent(i)
        \/ AgentReturn(i)
        \/ UpdateStatus(i)

Spec == Init /\ [][Next]_vars

\* two orchestrators on one store, each in resume mode or not and each
\* started with --single (max_iterations = 1); no dry run.  The epic is ready,
\* the task without subtasks is closed, the other three tasks are ready,
\* in_progress or closed
InitMulti ==
    /\ status \in {st \in [TaskIds -> {"ready", "in_progress", "closed"}] :
                      st[Epic] = "ready" /\ st[Sibling] = "closed"}
    /\ listing = StoreOrder
    /\ InitIdle
    /\ \E r \in [Insts -> BOOLEAN], a \in BOOLEAN :
           cfg = [i \in Insts |->
                     [resume |-> r[i], auto_complete |-> a, dry_run |-> FALSE,
                      max_iterations |-> [some |-> TRUE, n |-> 1]]]
    /\ pc = [i \in Insts |-> "top"]
    /\ InitLocals

SpecMulti == InitMulti /\ [][Next]_vars

----------------------------------------------------------------------------
(* One orchestrator, no iteration limit, auto-complete on, no dry run; every *)
(* bd command succeeds and the agent returns without a timeout.  The loop   *)
(* is followed to its end, whatever the number of iterations.              *)

InitTerm ==
    /\ status \in InitialStores
    /\ listing = StoreOrder
    /\ InitIdle
    /\ \E r \in BOOLEAN :
           cfg = [i \in Insts |->
                     IF i = 1
                     THEN [resume |-> r, auto_complete |-> TRUE,
                           dry_run |-> FALSE, max_iterations |-> NoCapValue]
                     ELSE IdleConfig]
    /\ pc = [i \in Insts |-> IF i = 1 THEN "top" ELSE "off"]
    /\ InitLocals

\* no query of the Scheduler failed, every bd update issued in the iteration
\* succeeded, the agent did not time out, nothing raised
AllSucceeded ==
    /\ qfail[1] = {}
    /\ \A o \in ops[1] : o[2] = "ok"
    /\ agentRes[1] # "timeout"
    /\ pc[1] # "crashed"

\* the body of the loop after the Scheduler and bd show
LoopBody ==
    \/ Claim(1) /\ AllSucceeded'
    \/ CloseParent(1) /\ AllSucceeded'
    \/ AgentReturn(1) /\ AllSucceeded'
    \/ UpdateStatus(1) /\ AllSucceeded'

NextTerm ==
    \/ Select(1) /\ AllSucceeded'
    \/ LoopBody

\* the loop is sequential code: a step that can be taken is taken.  At the
\* top of the loop a step can always be taken (the Scheduler returns a task
\* or none), so the loop does not stay there
SpecTerm ==
    /\ InitTerm
    /\ [][NextTerm]_vars
    /\ WF_vars(LoopBody)
    /\ []<>(pc[1] # "top")

----------------------------------------------------------------------------
(* One orchestrator started with --dry-run: main passes max_iterations = 1  *)

InitDry ==
    /\ status \in InitialStores
    /\ listing = StoreOrder
    /\ InitIdle
    /\ \E r \in BOOLEAN, a \in BOOLEAN :
           cfg = [i \in Insts |->
                     IF i = 1
                     THEN [resume |-> r, auto_complete |-> a, dry_run |-> TRUE,
                           max_iterations |-> [some |-> TRUE, n |-> 1]]
                     ELSE IdleConfig]
    /\ pc = [i \in Insts |-> IF i = 1 THEN "top" ELSE "off"]
    /\ InitLocals

SpecDry == InitDry /\ [][Next]_vars

----------------------------------------------------------------------------
(* The Dependency Gate and the Scheduler called on their own, once, on any  *)
(* content of the store                                                    *)

InitGate ==
    /\ status \in [TaskIds -> Status]
    /\ listing = StoreOrder
    /\ InitIdle
    /\ cfg = [i \in Insts |-> IdleConfig]
    /\ pc = [i \in Insts |-> "off"]
    /\ InitLocals

\* all_children_complete(parent_id), the list-children command ending as out
CallGate ==
    /\ asked.fn = "none"
    /\ \E parent_id \in TaskIds, out \in ReadOutcome :
           LET g == all_children_complete(parent_id, status, out)
           IN  asked' = [NoCall EXCEPT !.fn = "all_children_complete",
                                       !.n = 1,
                                       !.parent = parent_id,
                                       !.out = out,
                                       !.raised = g.raised,
                                       !.val = g.val]
    /\ UNCHANGED <<status, cfg, pc, iteration, cur, is_resumed, agentRes,
                   ops, last, nselected, retired, qfail, listing, tgt, initcmd>>

\* get_next_prioritized_task(resume): the in-progress query ending as ipOut,
\* every list-children command as out, the ready query as rdOut.  A second
\* call, after a change of the store, is made with the arguments and the
\* outcomes of the first.
CallScheduler ==
    /\ IF asked.fn = "none" THEN TRUE
       ELSE /\ asked.fn = "get_next_prioritized_task"
            /\ asked.n = 1
            /\ asked.change # "none"
    /\ \E resume \in (IF asked.n = 0 THEN BOOLEAN ELSE {asked.resume}),
          ipOut \in (IF asked.n = 0 THEN ReadOutcome ELSE {asked.ipOut}),
          out \in (IF asked.n = 0 THEN ReadOutcome ELSE {asked.out}),
          rdOut \in (IF asked.n = 0 THEN ReadOutcome ELSE {asked.rdOut}) :
           LET parents == {t \in DOMAIN status :
                              /\ status[t] = "in_progress"
                              /\ ~is_leaf_task(BeadTask(t, status))}
               sel == get_next_prioritized_task(resume, status, ipOut,
                                                [t \in parents |-> out], rdOut)
           IN  asked' = [asked EXCEPT !.fn = "get_next_prioritized_task",
                                      !.n = @ + 1,
                                      !.resume = resume,
                                      !.ipOut = ipOut,
                                      !.out = out,
                                      !.rdOut = rdOut,
                                      !.raised = sel.raised,
                                      !.task = sel.task,
                                      !.resumed = sel.resumed,
                                      !.task1 = asked.task,
                                      !.resumed1 = asked.resumed,
                                      !.raised1 = asked.raised]
    /\ UNCHANGED <<status, cfg, pc, iteration, cur, is_resumed, agentRes,
                   ops, last, nselected, retired, qfail, listing, tgt, initcmd>>

\* Between two calls of the Scheduler in resume mode, all queries answered:
\* the direct children of an in-progress non-leaf task that the gate held
\* back become closed, and nothing else changes
CloseChildren ==
    /\ asked.fn = "get_next_prioritized_task"
    /\ asked.n = 1 /\ asked.change = "none"
    /\ asked.resume
    /\ asked.ipOut = "ok" /\ asked.out = "ok" /\ asked.rdOut = "ok"
    /\ \E p \in DOMAIN status :
           /\ status[p] = "in_progress"
           /\ ~is_leaf_task(BeadTask(p, status))
           /\ ~all_children_complete(p, status, "ok").val
           /\ status' = [t \in DOMAIN status |->
                            IF ParentOf(t) = p /\ status[t] \notin {"done", "closed"}
                            THEN "closed" ELSE status[t]]
           /\ asked' = [asked EXCEPT !.change = "children_closed",
                                     !.parent = p]
    /\ UNCHANGED <<cfg, pc, iteration, cur, is_resumed, agentRes,
                   ops, last, nselected, retired, qfail, listing, tgt, initcmd>>

NextGate == CallGate \/ CallScheduler \/ CloseChildren

SpecGate == InitGate /\ [][NextGate]_vars

----------------------------------------------------------------------------
(* The Scheduler and the Dependency Gate called on a store that holds more  *)
(* tasks than a page: the five tasks and, under the epic, 48 more tasks    *)
(* of depth 1 that are ready                                               *)

PageExtra ==
    <<
       "fb-x0.3", "fb-x0.4", "fb-x0.5", "fb-x0.6", "fb-x0.7", "fb-x0.8",
       "fb-x0.9", "fb-x0.10", "fb-x0.11", "fb-x0.12", "fb-x0.13", "fb-x0.14",
       "fb-x0.15", "fb-x0.16", "fb-x0.17", "fb-x0.18", "fb-x0.19", "fb-x0.20",
       "fb-x0.21", "fb-x0.22", "fb-x0.23", "fb-x0.24", "fb-x0.25", "fb-x0.26",
       "fb-x0.27", "fb-x0.28", "fb-x0.29", "fb-x0.30", "fb-x0.31", "fb-x0.32",
       "fb-x0.33", "fb-x0.34", "fb-x0.35", "fb-x0.36", "fb-x0.37", "fb-x0.38",
       "fb-x0.39", "fb-x0.40", "fb-x0.41", "fb-x0.42", "fb-x0.43", "fb-x0.44",
       "fb-x0.45", "fb-x0.46", "fb-x0.47", "fb-x0.48", "fb-x0.49", "fb-x0.50"
    >>

PageIds == TaskIds \cup {PageExtra[k] : k \in 1..Len(PageExtra)}

\* two orders in which the store can list these tasks
PageListings == {PageExtra \o StoreOrder, StoreOrder \o PageExtra}

InitPage ==
    /\ \E st \in [{Parent, Leaf1, Leaf2} -> {"ready", "in_progress"}] :
           status = [t \in PageIds |->
                        IF t \in DOMAIN st THEN st[t]
                        ELSE IF t = Epic THEN "in_progress" ELSE "ready"]
    /\ listing \in PageListings
    /\ InitIdle
    /\ cfg = [i \in Insts |-> IdleConfig]
    /\ pc = [i \in Insts |-> "off"]
    /\ InitLocals

\* Between two calls of the Scheduler: the store lists the same tasks, with
\* the same statuses, in another order
Relist ==
    /\ asked.fn = "get_next_prioritized_task"
    /\ asked.n = 1 /\ asked.change = "none"
    /\ listing' \in PageListings \ {listing}
    /\ asked' = [asked EXCEPT !.change = "relisted"]
    /\ UNCHANGED <<status, cfg, pc, iteration, cur, is_resumed, agentRes,
                   ops, last, nselected, retired, qfail, tgt, initcmd>>

NextPage == CallGate \/ CallScheduler \/ Relist

SpecPage == InitPage /\ [][NextPage]_vars

----------------------------------------------------------------------------
(* The Hierarchy Analyzer called on its own, on a task of any id and type   *)

\* ids of the store's form prefix-base(.seg)*, and ids of other forms: no
\* "-", a "." ahead of the first "-", a second "-"
HierIds ==
    PageIds \cup {"x0", "x0.1.1", "f.b-x0.1", "fb-x0-1.1", "fb-x0.1.1.1"}

\* issue_type values of the store
IssueTypes == {"epic", "task", "bug"}

\* the task the functions are called on is drawn here: asked.task and
\* asked.task_type
InitHier ==
    /\ status = [t \in TaskIds |-> "ready"]
    /\ listing = StoreOrder
    /\ InitIdle
    /\ cfg = [i \in Insts |-> IdleConfig]
    /\ pc = [i \in Insts |-> "off"]
    /\ iteration = [i \in Insts |-> 0]
    /\ cur = [i \in Insts |-> NoTask]
    /\ is_resumed = [i \in Insts |-> FALSE]
    /\ agentRes = [i \in Insts |-> "none"]
    /\ ops = [i \in Insts |-> {}]
    /\ last = [i \in Insts |-> "none"]
    /\ nselected = [i \in Insts |-> 0]
    /\ retired = [t \in TaskIds |-> "no"]
    /\ qfail = [i \in Insts |-> {}]
    /\ \E id \in HierIds, ty \in IssueTypes :
           asked = [NoCall EXCEPT !.task = id, !.task_type = ty]

\* the BeadTask the Hierarchy Analyzer is called on
AskedTask == [id |-> asked.task, task_type |-> asked.task_type,
              status |-> "ready"]

\* get_hierarchy_depth(task)
CallDepth ==
    /\ asked.fn = "none"
    /\ asked' = [asked EXCEPT !.fn = "get_hierarchy_depth",
                              !.n = 1,
                              !.depth = get_hierarchy_depth(AskedTask)]
    /\ UNCHANGED <<status, cfg, pc, iteration, cur, is_resumed, agentRes,
                   ops, last, nselected, retired, qfail, listing, tgt, initcmd>>

\* is_leaf_task(task)
CallIsLeaf ==
    /\ asked.fn = "none"
    /\ asked' = [asked EXCEPT !.fn = "is_leaf_task",
                              !.n = 1,
                              !.val = is_leaf_task(AskedTask)]
    /\ UNCHANGED <<status, cfg, pc, iteration, cur, is_resumed, agentRes,
                   ops, last, nselected, retired, qfail, listing, tgt, initcmd>>

NextHier == CallDepth \/ CallIsLeaf

SpecHier == InitHier /\ [][NextHier]_vars

----------------------------------------------------------------------------
(* multi-ralph init: the .claude directory of the package is copied to the  *)
(* target project.  An entry of the target is absent, a directory, a file  *)
(* of the project ("user") or a file copied from the package ("pkg").      *)

\* the files of the package's .claude directory, and their directories
SourceFiles == {"a", "d/b"}

\* dst_path.parent below .claude; "" for .claude itself
ParentDir(p) == IF p = "d/b" THEN "d" ELSE ""

\* the .claude directories a target project can have: none, or one in which
\* each path is absent, a file of the project or (a, d) a directory; d/b
\* exists only in a directory d
TargetTrees ==
    {NoTarget} \cup
    {[root |-> TRUE, ent |-> e] :
        e \in {f \in [InitPaths -> {"absent", "user", "dir"}] :
                  /\ f["u"] # "dir"
                  /\ f["d/b"] # "dir"
                  /\ f["d/b"] = "user" => f["d"] = "dir"}}

\* shutil.rmtree(target_claude_dir)
rmtree(t) == NoTarget

\* shutil.copytree(source_claude_dir, target_claude_dir), the target absent
copytree(t) ==
    [root |-> TRUE,
     ent  |-> [p \in InitPaths |->
                  IF p \in SourceFiles THEN "pkg"
                  ELSE IF p = "d" THEN "dir" ELSE "absent"]]

\* dst_path.exists(): False for a path below a file too
PathExists(t, p) == t.ent[p] # "absent"

InitInit ==
    /\ status = [t \in TaskIds |-> "ready"]
    /\ listing = StoreOrder
    /\ cfg = [i \in Insts |-> IdleConfig]
    /\ pc = [i \in Insts |-> "off"]
    /\ InitLocals
    /\ tgt \in TargetTrees
    /\ \E f \in BOOLEAN, m \in BOOLEAN :
           initcmd = [pc |-> "start", force |-> f, merge |-> m, todo |-> {},
                      before |-> tgt]

\* cmd_init up to the copy: --force removes an existing .claude, --merge
\* keeps it, neither is an error; then the merge of an existing .claude,
\* or copytree
CmdInit ==
    /\ initcmd.pc = "start"
    /\ LET removed == tgt.root /\ initcmd.force
           refused == tgt.root /\ ~initcmd.force /\ ~initcmd.merge
           t1 == IF removed THEN rmtree(tgt) ELSE tgt
       IN  IF refused
           THEN /\ initcmd' = [initcmd EXCEPT !.pc = "error"]
                /\ UNCHANGED tgt
           ELSE IF initcmd.merge /\ t1.root
           THEN /\ initcmd' = [initcmd EXCEPT !.pc = "merging",
                                              !.todo = SourceFiles]
                /\ tgt' = t1
           ELSE /\ initcmd' = [initcmd EXCEPT !.pc = "done"]
                /\ tgt' = copytree(t1)
    /\ UNCHANGED <<status, cfg, pc, iteration, cur, is_resumed, agentRes,
                   ops, last, nselected, retired, qfail, asked, listing>>

\* _merge_directories, one file of source.rglob("*"), in any order: a file
\* whose destination does not exist is copied, after its directory is made
\* (mkdir raises FileExistsError on a file in the place of the directory)
MergeFile ==
    /\ initcmd.pc = "merging"
    /\ \E rel \in initcmd.todo :
           LET parent == ParentDir(rel)
               blocked == parent # "" /\ tgt.ent[parent] = "user"
           IN  IF PathExists(tgt, rel)
               THEN /\ initcmd' = [initcmd EXCEPT !.todo = @ \ {rel}]
                    /\ UNCHANGED tgt
               ELSE IF blocked
               THEN /\ initcmd' = [initcmd EXCEPT !.pc = "raised"]
                    /\ UNCHANGED tgt
               ELSE /\ initcmd' = [initcmd EXCEPT !.todo = @ \ {rel}]
                    /\ tgt' = [tgt EXCEPT
                                  !.ent = [p \in InitPaths |->
                                              IF p = rel THEN "pkg"
                                              ELSE IF p = parent THEN "dir"
                                              ELSE @[p]]]
    /\ UNCHANGED <<status, cfg, pc, iteration, cur, is_resumed, agentRes,
                   ops, last, nselected, retired, qfail, asked, listing>>

\* the loop of _merge_directories is over: cmd_init prints and returns 0
MergeReturn ==
    /\ initcmd.pc = "merging"
    /\ initcmd.todo = {}
    /\ initcmd' = [initcmd EXCEPT !.pc = "done"]
    /\ UNCHANGED <<status, cfg, pc, iteration, cur, is_resumed, agentRes,
                   ops, last, nselected, retired, qfail, asked, listing, tgt>>

NextInit == CmdInit \/ MergeFile \/ MergeReturn

SpecInit == InitInit /\ [][NextInit]_vars

----------------------------------------------------------------------------
(* Vocabulary of the properties *)

ReadyPool == {t \in DOMAIN status : status[t] = "ready"}
InProgressPool == {t \in DOMAIN status : status[t] = "in_progress"}

DepthOf(t) == get_hierarchy_depth(BeadTask(t, status))
IsLeaf(t) == is_leaf_task(BeadTask(t, status))

ChildrenOf(t) == {c \in DOMAIN status : ParentOf(c) = t}
ChildrenTerminal(t) == \A c \in ChildrenOf(t) : status[c] \in {"done", "closed"}

\* t comes before u in (-depth, id) order
Before(t, u) ==
    \/ DepthOf(t) > DepthOf(u)
    \/ DepthOf(t) = DepthOf(u) /\ StrLess(Chars(t), Chars(u))

\* the Scheduler has just returned a task to instance i / no task
Returned(i) == pc[i] = "claim"
ReturnedNone(i) == pc[i] = "done" /\ last[i] = "exhausted"

\* instance i has just finished an iteration that ended as `how`
Ended(i, how) == pc[i] = "top" /\ last[i] = how

\* command c was issued for the task of the current iteration
Issued(i, c) == \E o \in WriteOutcome : <<c, o>> \in ops[i]

----------------------------------------------------------------------------
(* C1: the orchestrator never moves a non-leaf task to closed while one of  *)
(* its direct children in the store has a status other than done or closed *)
C1_NeverClosedOverOpenChild ==
    [][\A t \in TaskIds :
          (~IsLeaf(t) /\ status[t] # "closed" /\ status'[t] = "closed")
              => ChildrenTerminal(t)]_vars

(* C2: with two orchestrators on one store, at no time is the Agent Runner  *)
(* of both running on the same task                                        *)
C2_OneRunnerPerTask ==
    \A i \in Insts : \A j \in Insts :
        (i # j /\ pc[i] = "agent" /\ pc[j] = "agent") => cur[i] # cur[j]

----------------------------------------------------------------------------
\* an in-progress candidate the claim calls eligible
Eligible(t) == IsLeaf(t) \/ ChildrenTerminal(t)

\* instance i is working on a task it selected
InIteration(i) == pc[i] \in {"claim", "close", "agent", "update"}

C5_ClaimFailure ==
    \A i \in Insts :
        Ended(i, "claim_failed") =>
            /\ ops[i] = {<<"claim", "nonzero">>}
            /\ ~is_resumed[i]
            /\ agentRes[i] = "none"
            /\ status[cur[i]] = "ready"

\* the claim of a subtask was refused
C5_Witness == Ended(1, "claim_failed") /\ IsLeaf(cur[1])

(* C6: when the agent times out on a leaf task, the task is in_progress at  *)
(* the end of the iteration: a note was issued and neither a close nor a   *)
(* blocked update, with auto-complete on or off                            *)
C6_Timeout ==
    \A i \in Insts :
        Ended(i, "timeout") =>
            /\ status[cur[i]] = "in_progress"
            /\ Issued(i, "note")
            /\ ~Issued(i, "close")
            /\ ~Issued(i, "block")

\* a claimed subtask timed out with auto-complete on
C6_Witness ==
    /\ Ended(1, "timeout") /\ cfg[1].auto_complete
    /\ <<"claim", "ok">> \in ops[1]

C9_NeverRaises == \A i \in Insts : pc[i] # "crashed"

(* C10: the iteration counter counts the tasks the Scheduler returned: it   *)
(* equals their number at the top of the loop and when the loop returns,   *)
(* and is one behind while an iteration is under way                       *)
C10_IterationCounts ==
    \A i \in Insts :
        /\ pc[i] \in {"top", "done"} => iteration[i] = nselected[i]
        /\ InIteration(i) => iteration[i] + 1 = nselected[i]

\* the loop returned after one task whose claim failed
C10_Witness ==
    /\ pc[1] = "done" /\ iteration[1] = 1 /\ nselected[1] = 1
    /\ ops[1] = {<<"claim", "nonzero">>}

----------------------------------------------------------------------------
\* a task the Scheduler can select for instance i in the current store
Candidate(i, t) ==
    \/ status[t] = "ready"
    \/ cfg[i].resume /\ status[t] = "in_progress" /\ Eligible(t)

\* the loop of instance i has ended
Stopped(i) == pc[i] \in {"done", "crashed"}

(* C11: the loop stops only when the Scheduler returned no task or the      *)
(* iteration counter has reached the configured cap; with cap N the        *)
(* counter never exceeds N and no task is selected once it equals N; and   *)
(* while a candidate exists and budget remains the loop does not stop      *)
C11_StopsOnlyOnExhaustionOrCap ==
    \A i \in Insts :
        /\ Stopped(i) => last[i] \in {"exhausted", "cap"}
        /\ cfg[i].max_iterations.some =>
               /\ iteration[i] <= cfg[i].max_iterations.n
               /\ iteration[i] = cfg[i].max_iterations.n => ~InIteration(i)
        /\ (Stopped(i) /\ \E t \in TaskIds : Candidate(i, t)) =>
               /\ cfg[i].max_iterations.some
               /\ iteration[i] = cfg[i].max_iterations.n

----------------------------------------------------------------------------
\* instance i calls the Scheduler in this step and the call returns
SchedulerReturns(i) ==
    /\ pc[i] = "top"
    /\ pc'[i] = "claim" \/ (pc'[i] = "done" /\ last'[i] = "exhausted")

----------------------------------------------------------------------------
(* C13: the status changes made by the orchestrators follow                 *)
(* ready -> in_progress -> {done/closed, blocked}: no step changes the     *)
(* status of a task that is done or closed, and no step moves a blocked    *)
(* task back to ready or in_progress                                       *)
C13_MonotonicStatus ==
    [][\A t \in TaskIds :
          /\ status[t] \in {"done", "closed"} => status'[t] = status[t]
          /\ status[t] = "blocked" => status'[t] \notin {"ready", "in_progress"}
      ]_vars

----------------------------------------------------------------------------
\* d is a proper descendant of t by the hierarchy of the ids: the id of t
\* followed by "." and more
IsDescendant(d, t) ==
    LET cd == Chars(d)
        ct == Chars(t)
    IN  /\ Len(cd) > Len(ct) + 1
        /\ SubSeq(cd, 1, Len(ct)) = ct
        /\ cd[Len(ct) + 1] = "."

ReadyDescendants(t) ==
    {d \in TaskIds : IsDescendant(d, t) /\ status[d] = "ready"}

----------------------------------------------------------------------------
(* C15: the Agent Runner is invoked only for leaf tasks, tasks that are not *)
(* epics and have depth 2 or more: never for an epic or for a task of      *)
(* depth below 2, a depth-1 task without children included                 *)
C15_AgentOnlyForLeaves ==
    \A i \in Insts :
        (pc[i] \in {"agent", "update"} \/ Issued(i, "agent")) =>
            /\ TypeOf(cur[i]) # "epic"
            /\ DepthOf(cur[i]) >= 2

\* the depth-1 task without children was claimed and closed, and no agent ran
C15_Witness ==
    /\ Ended(1, "parent_closed") /\ cur[1] = Sibling
    /\ ops[1] = {<<"claim", "ok">>, <<"close", "ok">>}

----------------------------------------------------------------------------
\* instance i has finished an iteration on a non-leaf task that it held
\* (resumed, or claimed in that iteration)
EndedNonLeaf(i) ==
    /\ pc[i] = "top"
    /\ last[i] \in {"parent_left", "parent_closed", "close_failed"}
    /\ TypeOf(cur[i]) = "epic" \/ DepthOf(cur[i]) < 2

(* C16 as stated: a non-leaf task that is selected and, if not resumed,     *)
(* claimed, is moved from in_progress to closed in that iteration with no  *)
(* agent run: the close is issued, and when it succeeds the task is        *)
(* closed and not in_progress at the end of the iteration                  *)
C16_ParentClosedAsStated ==
    \A i \in Insts :
        EndedNonLeaf(i) =>
            /\ ~Issued(i, "agent")
            /\ Issued(i, "close")
            /\ <<"close", "ok">> \in ops[i] => status[cur[i]] = "closed"

(* C16 amended: the same with auto-complete enabled; with auto-complete     *)
(* disabled no close is issued and the task ends the iteration in_progress *)
C16_ParentClosed ==
    \A i \in Insts :
        EndedNonLeaf(i) =>
            /\ ~Issued(i, "agent")
            /\ is_resumed[i] \/ <<"claim", "ok">> \in ops[i]
            /\ IF cfg[i].auto_complete
               THEN /\ Issued(i, "close")
                    /\ <<"close", "ok">> \in ops[i] => status[cur[i]] = "closed"
               ELSE /\ ~Issued(i, "close") /\ ~Issued(i, "block")
                    /\ status[cur[i]] = "in_progress"

\* auto-complete on: the in-progress task with two closed subtasks was
\* resumed and closed
C16_Witness ==
    /\ Ended(1, "parent_closed") /\ cfg[1].auto_complete
    /\ is_resumed[1] /\ cur[1] = Parent
    /\ status[Parent] = "closed"

----------------------------------------------------------------------------
\* the store commands other than the claim
Mutations == {"close", "block", "note"}

(* C17: a leaf task whose agent run reports success is closed in the same   *)
(* iteration exactly when auto-complete is enabled and the close succeeds; *)
(* with auto-complete disabled no status mutation is issued and the task   *)
(* stays in_progress                                                       *)
C17_SuccessCompletes ==
    \A i \in Insts :
        (pc[i] = "top" /\ agentRes[i] = "success") =>
            IF cfg[i].auto_complete
            THEN /\ Issued(i, "close")
                 /\ status[cur[i]] = "closed" <=> <<"close", "ok">> \in ops[i]
                 /\ last[i] = "completed" <=> <<"close", "ok">> \in ops[i]
            ELSE /\ \A c \in Mutations : ~Issued(i, c)
                 /\ status[cur[i]] = "in_progress"
                 /\ last[i] = "success_left"

\* auto-complete off: the agent succeeded on a claimed subtask, which is
\* left in_progress
C17_Witness ==
    /\ Ended(1, "success_left") /\ ~cfg[1].auto_complete
    /\ agentRes[1] = "success" /\ cur[1] = Leaf2
    /\ ops[1] = {<<"claim", "ok">>, <<"agent", "ok">>}

----------------------------------------------------------------------------
\* the claims recorded for the task of the current iteration
Claims(i) == {o \in ops[i] : o[1] = "claim"}

(* C18: no claim is issued in the iteration of a task selected with the     *)
(* resumed flag set, leaf or non-leaf; a claim is issued only for a task   *)
(* selected from the ready pool, and once: none before the claim point,    *)
(* and one, successful, for a task past it                                 *)
C18_ResumedSkipsClaim ==
    \A i \in Insts :
        /\ is_resumed[i] => Claims(i) = {}
        /\ pc[i] = "claim" => Claims(i) = {}
        /\ (pc[i] \in {"close", "agent", "update"} /\ ~is_resumed[i]) =>
               Claims(i) = {<<"claim", "ok">>}
        /\ Cardinality(Claims(i)) <= 1

\* a resumed non-leaf task was closed with no claim
C18_Witness ==
    /\ Ended(1, "parent_closed") /\ is_resumed[1]
    /\ ops[1] = {<<"close", "ok">>}

----------------------------------------------------------------------------
\* the Dependency Gate was called on its own
GateCalled == asked.fn = "all_children_complete"

\* what the claim says all_children_complete(p) is for the store
GateAsStated(p, val) ==
    /\ ChildrenOf(p) = {} => val
    /\ (\A c \in ChildrenOf(p) : status[c] \in {"done", "closed"}) => val
    /\ (\E c \in ChildrenOf(p) :
            status[c] \in {"ready", "in_progress", "blocked"}) => ~val

SchedulerCalled == asked.fn = "get_next_prioritized_task"

(* C20: when the list-children query fails (exit code other than 0, blank   *)
(* or malformed output) childrenComplete is true, as for a parent without  *)
(* children; in resume mode, the in-progress query answered, the first     *)
(* in-progress task in (-depth, id) order is then returned as resumed,     *)
(* a non-leaf with a child that is not done or closed included             *)
C20_FailedQueryPassesGate ==
    /\ (GateCalled /\ asked.out = "failed") => (~asked.raised /\ asked.val)
    /\ (/\ SchedulerCalled /\ asked.n = 1 /\ asked.change = "none"
        /\ asked.resume /\ asked.ipOut = "ok" /\ asked.out = "failed"
        /\ InProgressPool # {}) =>
           /\ ~asked.raised /\ asked.resumed
           /\ asked.task \in InProgressPool
           /\ \A u \in InProgressPool \ {asked.task} : Before(asked.task, u)

\* resume mode: the in-progress task is returned although its second subtask
\* is ready, its list-children query having failed
C20_Witness ==
    /\ SchedulerCalled /\ asked.n = 1 /\ asked.resume
    /\ asked.ipOut = "ok" /\ asked.out = "failed"
    /\ asked.task = Parent /\ asked.resumed
    /\ status[Leaf1] = "closed" /\ status[Leaf2] = "ready"

----------------------------------------------------------------------------
\* the first task of a set in (-depth, id) order
FirstOf(S) == CHOOSE t \in S : \A u \in S \ {t} : Before(t, u)

\* what the Scheduler selects over the complete candidate sets: in resume
\* mode the first eligible in-progress task, else the first ready task
CompleteChoice(resume) ==
    LET eligible == {t \in InProgressPool : Eligible(t)}
    IN  IF resume /\ eligible # {}
        THEN [task |-> FirstOf(eligible), resumed |-> TRUE]
        ELSE IF ReadyPool # {}
        THEN [task |-> FirstOf(ReadyPool), resumed |-> FALSE]
        ELSE [task |-> NoTask, resumed |-> FALSE]

\* the Scheduler was called once and the store is as it was then
FirstCall == SchedulerCalled /\ asked.n = 1 /\ asked.change = "none"

\* every query of the call was answered
AllAnswered == asked.ipOut = "ok" /\ asked.out = "ok" /\ asked.rdOut = "ok"

(* C21: the page sizes (50 ready, 50 in-progress, 100 children) do not      *)
(* change the result: the task the Scheduler selects and the result of     *)
(* the gate are those over the complete candidate sets                     *)
C21_PageSizeIrrelevant ==
    /\ (FirstCall /\ AllAnswered) =>
           /\ asked.task = CompleteChoice(asked.resume).task
           /\ asked.resumed = CompleteChoice(asked.resume).resumed
    /\ (GateCalled /\ asked.out = "ok") =>
           (asked.val <=> ChildrenTerminal(asked.parent))

\* the first call of the Scheduler passed over the task asked.parent: it was
\* made in resume mode and did not stop at a task ahead of it
SkippedByGate ==
    /\ SchedulerCalled /\ asked.n = 2 /\ asked.change = "children_closed"
    /\ ~(asked.resumed1 /\ Before(asked.task1, asked.parent))

(* C22: an in-progress non-leaf task that the resume walk passed over      *)
(* because a child was incomplete is returned, resumed, by the next call   *)
(* of the Scheduler once its direct children are closed and nothing else   *)
(* has changed                                                             *)
C22_SkippedParentResumed ==
    SkippedByGate =>
        /\ ~asked.raised
        /\ asked.task = asked.parent
        /\ asked.resumed

C22_Witness ==
    /\ SkippedByGate
    /\ asked.parent = Parent
    /\ asked.task = Parent /\ asked.resumed
    /\ status[Sibling] = "in_progress"
    /\ asked.task1 = Sibling /\ asked.resumed1

\* the number of "." of s that have a "-" somewhere before them
DotsAfterFirstDash(s) ==
    Cardinality({k \in 1..Len(s) :
                    s[k] = "." /\ \E j \in 1..(k - 1) : s[j] = "-"})

(* C23: the depth of a task is the number of "." after the first "-" of    *)
(* its id, and 0 for an id without "-", dots or not                        *)
C23_Depth ==
    asked.fn = "get_hierarchy_depth" =>
        /\ asked.depth = DotsAfterFirstDash(Chars(asked.task))
        /\ ~HasChar(Chars(asked.task), "-") => asked.depth = 0

C23_Witness ==
    /\ asked.fn = "get_hierarchy_depth"
    /\ asked.task = "x0.1.1"
    /\ asked.depth = 0

(* C24: a task of type epic is not a leaf whatever its depth; a task of    *)
(* another type is a leaf exactly when its depth is 2 or more              *)
C24_IsLeaf ==
    asked.fn = "is_leaf_task" =>
        /\ asked.task_type = "epic" => ~asked.val
        /\ asked.task_type # "epic" =>
               (asked.val <=> DotsAfterFirstDash(Chars(asked.task)) >= 2)

C24_Witness ==
    /\ asked.fn = "is_leaf_task"
    /\ asked.task_type = "epic"
    /\ asked.task = Leaf1
    /\ ~asked.val

(* C25: with resume mode off, the task the Scheduler returns is ready, not  *)
(* in progress, and the resumed flag is false; a task that is in_progress  *)
(* (left so by a timeout or by a success without auto-complete) is not     *)
(* selected                                                                *)
C25_NoResumeNeverInProgress ==
    \A i \in Insts :
        ~cfg[i].resume =>
            /\ ~is_resumed[i]
            /\ Returned(i) => status[cur[i]] = "ready"

\* resume off: the first subtask timed out and stays in_progress, and the
\* next iteration selects the second subtask
C25_Witness ==
    /\ ~cfg[1].resume /\ Returned(1) /\ ~is_resumed[1]
    /\ iteration[1] = 1 /\ last[1] = "timeout"
    /\ status[Leaf1] = "in_progress" /\ cur[1] = Leaf2

(* C26: the Scheduler is deterministic: called twice on a store with the   *)
(* same tasks and statuses, listed in two different orders, it returns the *)
(* same task and the same resumed flag                                     *)
C26_Deterministic ==
    (SchedulerCalled /\ asked.n = 2 /\ asked.change = "relisted") =>
        /\ asked.task = asked.task1
        /\ asked.resumed = asked.resumed1

(* C27: one orchestrator, no iteration limit, every store operation        *)
(* succeeding, auto-complete on, no agent timeout: every iteration leaves  *)
(* the selected task outside the ready and in-progress pools, and the loop *)
(* ends with the Scheduler returning no task, with resume on and off      *)
C27_Terminates ==
    /\ [][iteration'[1] # iteration[1] =>
              status'[cur[1]] \notin {"ready", "in_progress"}]_vars
    /\ <>(pc[1] = "done" /\ last[1] = "exhausted")

\* resume mode, five ready tasks: the loop ended after five iterations
C27_Witness ==
    /\ cfg[1].resume
    /\ pc[1] = "done" /\ last[1] = "exhausted"
    /\ iteration[1] = 5

(* C28: in a dry run no step changes the store and no command is issued:   *)
(* no claim, no close, no blocked update, no note, no agent; the iteration *)
(* of a leaf or a non-leaf task still ends with the counter one higher     *)
C28_DryRunChangesNothing ==
    [][/\ status' = status
       /\ ops'[1] = {}
       /\ agentRes'[1] \in {"none", "success"}
       /\ (pc[1] \in {"close", "update"} /\ pc'[1] = "top") =>
              iteration'[1] = iteration[1] + 1
       /\ pc'[1] \in {"top", "claim", "close", "agent", "update", "done",
                      "crashed"}
       /\ pc[1] \in {"claim", "close", "agent", "update"} =>
              pc'[1] # "crashed"]_vars

\* the dry run of a ready leaf task ended: one iteration counted, the task
\* still ready
C28_Witness ==
    /\ cfg[1].dry_run
    /\ last[1] = "dry_run" /\ iteration[1] = 1
    /\ cur[1] = Leaf1 /\ status[Leaf1] = "ready"
    /\ agentRes[1] = "success" /\ ops[1] = {}

(* C29: init with --merge into an existing .claude directory only adds     *)
(* missing files: every file that the target had is still there,           *)
(* unchanged, at every point of the command and after it                   *)
C29_MergeOnlyAdds ==
    (initcmd.merge /\ initcmd.before.root /\ initcmd.pc # "start") =>
        /\ tgt.root
        /\ \A p \in InitPaths :
               initcmd.before.ent[p] = "user" => tgt.ent[p] = "user"

=============================================================================
